---- MODULE Spec2Model ----
(***************************************************************************)
(* Verification model of the TinyViT encoder of src/model.py: the          *)
(* relative-offset bias index table and the evaluation-mode bias cache of  *)
(* Attention, the window partition transform of TinyViTBlock, the stage    *)
(* assembly and layer-wise lr-decay tagging of TinyViT.__init__, and the   *)
(* shape flow of TinyViT.forward_features.                                 *)
(***************************************************************************)
EXTENDS Integers, Sequences, FiniteSets, TLC

VARIABLES
    \* Attention.__init__ (offset table construction)
    resolution, attention_offsets, idxs, p1i, p2i, idx_pc,
    \* Attention (train / forward bias cache)
    num_heads, attention_bias_idxs, attention_biases, training, ab,
    fwd_bias, n_updates, attn_pc,
    \* TinyViTBlock.forward (window transform)
    input_resolution, window_size, x, res, win_pc,
    \* TinyViT.__init__ and set_layer_lr_decay
    img_size, depths, layer_lr_decay, num_classes, patches_resolution,
    layers, params, lr_scale, i, li, bi, build_pc, error,
    \* TinyViT.forward_features
    net, x_shape, fl, fb, fwd_pc, fwd_error

idxVars == <<resolution, attention_offsets, idxs, p1i, p2i, idx_pc>>

attnVars == <<num_heads, attention_bias_idxs, attention_biases, training, ab,
              fwd_bias, n_updates, attn_pc>>

winVars == <<input_resolution, window_size, x, res, win_pc>>

cfgVars == <<img_size, depths, layer_lr_decay, num_classes>>

buildVars == <<cfgVars, patches_resolution, layers, params, lr_scale, i, li,
               bi, build_pc, error>>

fwdVars == <<net, x_shape, fl, fb, fwd_pc, fwd_error>>

vars == <<idxVars, attnVars, winVars, buildVars, fwdVars>>

----------------------------------------------------------------------------
(* Bounds *)

MaxWindow == 7

\* Attention cache model: window side, heads, parameter values, update count
MaxAttnWindow == 2
MaxHeads == 2
MaxBiasValue == 1
MaxUpdates == 2

\* Window transform model: grid side, window side, batch, channels
MaxGrid == 5
MaxWinSize == 4
MaxBatch == 2
MaxChan == 2

\* Construction model: stages, blocks per stage, decay rate, image sizes
MaxLayers == 4
MaxDepth == 2
MaxDecay == 2
MaxImgUnits == 4

\* Forward model: stages, blocks per stage
MaxFwdLayers == 4
MaxFwdDepth == 1

----------------------------------------------------------------------------
(* Generic helpers *)

Abs(n) == IF n < 0 THEN -n ELSE n

RECURSIVE Pow(_, _)
Pow(b, e) == IF e <= 0 THEN 1 ELSE b * Pow(b, e - 1)

\* position (1-based) of the first occurrence of e in s, 0 when absent
RECURSIVE IndexOf(_, _, _)
IndexOf(s, e, k) ==
    IF k > Len(s) THEN 0
    ELSE IF s[k] = e THEN k ELSE IndexOf(s, e, k + 1)

----------------------------------------------------------------------------
(* Attention.__init__ : relative-offset table, src/model.py 197-209 *)

\* itertools.product(range(r0), range(r1)) in row-major order; n is 0-based
Point(rs, n) == <<n \div rs[2], n % rs[2]>>

NumPoints(rs) == rs[1] * rs[2]

Offset(p1, p2) == <<Abs(p1[1] - p2[1]), Abs(p1[2] - p2[2])>>

\* dict.setdefault(offset, len(dict)) on a dict kept as its keys in
\* insertion order: the value of the k-th key is k-1
SetDefaultNoGuard(offsets, offset) == Append(offsets, offset)

SetDefault(offsets, offset) ==
    IF IndexOf(offsets, offset, 1) # 0 THEN offsets
    ELSE Append(offsets, offset)

\* attention_offsets[offset]
Lookup(offsets, offset) == IndexOf(offsets, offset, 1) - 1

IdxIdle ==
    /\ resolution = <<0, 0>>
    /\ attention_offsets = <<>>
    /\ idxs = <<>>
    /\ p1i = 0
    /\ p2i = 0
    /\ idx_pc = "idle"

AttnIdle ==
    /\ num_heads = 0
    /\ attention_bias_idxs = <<>>
    /\ attention_biases = <<>>
    /\ training = TRUE
    /\ ab = <<>>
    /\ fwd_bias = <<>>
    /\ n_updates = 0
    /\ attn_pc = "idle"

WinIdle ==
    /\ input_resolution = <<0, 0>>
    /\ window_size = 0
    /\ x = <<>>
    /\ res = <<>>
    /\ win_pc = "idle"

BuildIdle ==
    /\ img_size = 0
    /\ depths = <<>>
    /\ layer_lr_decay = 0
    /\ num_classes = 0
    /\ patches_resolution = <<0, 0>>
    /\ layers = <<>>
    /\ params = {}
    /\ lr_scale = <<>>
    /\ i = 0
    /\ li = 0
    /\ bi = 0
    /\ build_pc = "idle"
    /\ error = ""

FwdIdle ==
    /\ net = <<>>
    /\ x_shape = <<>>
    /\ fl = 0
    /\ fb = 0
    /\ fwd_pc = "idle"
    /\ fwd_error = ""

IdxInit ==
    /\ AttnIdle
    /\ WinIdle
    /\ BuildIdle
    /\ FwdIdle
    /\ resolution \in {<<w, w>> : w \in 1..MaxWindow}
    /\ attention_offsets = <<>>
    /\ idxs = <<>>
    /\ p1i = 0
    /\ p2i = 0
    /\ idx_pc = "loop"

\* one iteration of the body of `for p1 in points: for p2 in points:`
OffsetLoopStep ==
    /\ idx_pc = "loop"
    /\ LET N == NumPoints(resolution)
           offset == Offset(Point(resolution, p1i), Point(resolution, p2i))
           offs == SetDefault(attention_offsets, offset)
           last == (p1i = N - 1 /\ p2i = N - 1)
       IN /\ attention_offsets' = offs
          /\ idxs' = Append(idxs, Lookup(offs, offset))
          /\ p2i' = IF p2i = N - 1 THEN 0 ELSE p2i + 1
          /\ p1i' = IF p2i = N - 1 /\ ~last THEN p1i + 1 ELSE p1i
          /\ idx_pc' = IF last THEN "done" ELSE "loop"
    /\ UNCHANGED resolution
    /\ UNCHANGED <<attnVars, winVars, buildVars, fwdVars>>

IdxNext == OffsetLoopStep

SpecIdx == IdxInit /\ [][IdxNext]_vars

\* torch.LongTensor(idxs).view(N, N)[i][j], i and j 0-based
BiasIdx(m, n) == idxs[m * NumPoints(resolution) + n + 1]

\* C6: once the table is built over a w x w grid it has exactly w*w buckets,
\* every entry of the N x N index table is a valid bucket index, two point
\* pairs share a bucket exactly when they share the absolute offset, and the
\* table is the one fixed by w alone (bucket of (dr, dc) is dr*w + dc).
C6_OffsetTable ==
    idx_pc = "done" =>
      LET w == resolution[1]
          N == NumPoints(resolution)
          nb == Len(attention_offsets)
      IN /\ nb = w * w
         /\ Len(idxs) = N * N
         /\ \A a, b \in 1..nb :
               attention_offsets[a] = attention_offsets[b] => a = b
         /\ \A m, n \in 0..(N - 1) :
               /\ BiasIdx(m, n) \in 0..(nb - 1)
               /\ attention_offsets[BiasIdx(m, n) + 1]
                    = Offset(Point(resolution, m), Point(resolution, n))
               /\ BiasIdx(m, n)
                    = Abs((m \div w) - (n \div w)) * w + Abs((m % w) - (n % w))

C6_Witness ==
    /\ idx_pc = "done"
    /\ resolution = <<7, 7>>
    /\ Len(attention_offsets) = 49

----------------------------------------------------------------------------
(* Attention : bias cache, src/model.py 207-233 *)

\* the loop of Attention.__init__ run to completion from iteration n
RECURSIVE BuildIdxs(_, _, _, _)
BuildIdxs(rs, n, offs, ix) ==
    LET N == NumPoints(rs) IN
    IF n >= N * N THEN [offsets |-> offs, idxs |-> ix]
    ELSE LET offset == Offset(Point(rs, n \div N), Point(rs, n % N))
             o2 == SetDefault(offs, offset)
         IN BuildIdxs(rs, n + 1, o2, Append(ix, Lookup(o2, offset)))

\* torch.LongTensor(idxs).view(N, N) as rows of 0-based bucket indices
ViewNN(ix, N) == [m \in 1..N |-> [n \in 1..N |-> ix[(m - 1) * N + n]]]

\* attention_biases[:, attention_bias_idxs] : a fresh (heads, N, N) tensor
BiasExpand(biases, table) ==
    [h \in 1..Len(biases) |->
        [m \in 1..Len(table) |->
            [n \in 1..Len(table) |-> biases[h][table[m][n] + 1]]]]

\* state right after Attention.__init__: zero biases, training mode, no `ab`
AttnInit ==
    /\ FwdIdle
    /\ IdxIdle
    /\ WinIdle
    /\ BuildIdle
    /\ \E w \in 1..MaxAttnWindow, nh \in 1..MaxHeads :
         LET t == BuildIdxs(<<w, w>>, 0, <<>>, <<>>) IN
         /\ num_heads = nh
         /\ attention_bias_idxs = ViewNN(t.idxs, w * w)
         /\ attention_biases = [h \in 1..nh |-> [b \in 1..Len(t.offsets) |-> 0]]
    /\ training = TRUE
    /\ ab = <<>>
    /\ fwd_bias = <<>>
    /\ n_updates = 0
    /\ attn_pc = "ready"

\* the attribute `ab` after train(mode): <<>> when absent, <<tensor>> when set
AbAfterTrain(mode, cur, biases, table) ==
    IF mode /\ cur # <<>> THEN <<>>
    ELSE <<BiasExpand(biases, table)>>

\* Attention.train(mode); nn.Module.eval() is train(False)
Train(mode) ==
    /\ attn_pc = "ready"
    /\ training' = mode
    /\ ab' = AbAfterTrain(mode, ab, attention_biases, attention_bias_idxs)
    /\ UNCHANGED <<num_heads, attention_bias_idxs, attention_biases,
                   fwd_bias, n_updates, attn_pc>>
    /\ UNCHANGED <<idxVars, winVars, buildVars, fwdVars>>

\* an external write of one entry of the attention_biases parameter
\* (optimizer step, load_state_dict)
UpdateBias ==
    /\ attn_pc = "ready"
    /\ n_updates < MaxUpdates
    /\ \E h \in 1..num_heads, b \in 1..Len(attention_biases[1]),
          v \in 0..MaxBiasValue :
         /\ attention_biases[h][b] # v
         /\ attention_biases' = [attention_biases EXCEPT ![h][b] = v]
    /\ n_updates' = n_updates + 1
    /\ UNCHANGED <<num_heads, attention_bias_idxs, training, ab, fwd_bias,
                   attn_pc>>
    /\ UNCHANGED <<idxVars, winVars, buildVars, fwdVars>>

\* the bias term Attention.forward adds to the scores
ForwardBias ==
    IF training THEN <<BiasExpand(attention_biases, attention_bias_idxs)>>
    ELSE ab

\* Attention.forward: records the bias it added; AttributeError without `ab`
ForwardAttn ==
    /\ attn_pc = "ready"
    /\ fwd_bias' = ForwardBias
    /\ attn_pc' = IF ForwardBias = <<>> THEN "error" ELSE "ready"
    /\ UNCHANGED <<num_heads, attention_bias_idxs, attention_biases, training,
                   ab, n_updates>>
    /\ UNCHANGED <<idxVars, winVars, buildVars, fwdVars>>

AttnNext ==
    \/ Train(TRUE)
    \/ Train(FALSE)
    \/ UpdateBias
    \/ ForwardAttn

SpecAttn == AttnInit /\ [][AttnNext]_vars

\* C4: whenever forward runs in evaluation mode, the bias matrix it adds is
\* attention_biases[:, attention_bias_idxs] of the current parameter values.
C4_EvalBiasCurrent ==
    [][(ForwardAttn /\ ~training) =>
         fwd_bias' = <<BiasExpand(attention_biases, attention_bias_idxs)>>]_vars

\* C9: after any sequence of train(mode) calls the cache `ab` exists exactly
\* when the module is in evaluation mode.
C9_CacheIffEval ==
    attn_pc = "ready" => ((ab # <<>>) <=> ~training)

----------------------------------------------------------------------------
(* TinyViTBlock.forward : window transform, src/model.py 255-280 *)

\* A tensor is [shape |-> <<d1, .., dn>>, data |-> its elements in contiguous
\* (row-major) order].

RECURSIVE Prod(_, _)
Prod(shape, d) == IF d > Len(shape) THEN 1 ELSE shape[d] * Prod(shape, d + 1)

Numel(shape) == Prod(shape, 1)

\* stride of dimension d of a contiguous tensor
Stride(shape, d) == Prod(shape, d + 1)

\* multi-index (0-based) of the 0-based flat position k
Unflat(k, shape) ==
    [d \in 1..Len(shape) |-> (k \div Stride(shape, d)) % shape[d]]

RECURSIVE FlatFrom(_, _, _)
FlatFrom(ix, shape, d) ==
    IF d > Len(shape) THEN 0
    ELSE ix[d] * Stride(shape, d) + FlatFrom(ix, shape, d + 1)

Flat(ix, shape) == FlatFrom(ix, shape, 1)

At(t, ix) == t.data[Flat(ix, t.shape) + 1]

Swap(s, a, b) ==
    [d \in 1..Len(s) |-> IF d = a THEN s[b] ELSE IF d = b THEN s[a] ELSE s[d]]

\* t.view(shape): same storage, new shape
View(t, shape) == [shape |-> shape, data |-> t.data]

\* t.transpose(a, b) followed by a copy into contiguous order, which is what
\* the .reshape(..) after each transpose does (a and b are 1-based dims)
TransposeContig(t, a, b) ==
    LET ns == Swap(t.shape, a, b) IN
    [shape |-> ns,
     data |-> [k \in 1..Numel(ns) |-> At(t, Swap(Unflat(k - 1, ns), a, b))]]

\* pad_b, pad_r
PadAmount(ws, n) == (ws - (n % ws)) % ws

\* F.pad(x, (0,0, 0,pad_r, 0,pad_b)) on a (B, H, W, C) tensor: zeros appended
\* at the right of W and at the bottom of H
Pad(t, pad_r, pad_b) ==
    LET ns == <<t.shape[1], t.shape[2] + pad_b, t.shape[3] + pad_r, t.shape[4]>>
    IN [shape |-> ns,
        data |-> [k \in 1..Numel(ns) |->
                    LET ix == Unflat(k - 1, ns) IN
                    IF ix[2] < t.shape[2] /\ ix[3] < t.shape[3]
                    THEN At(t, ix) ELSE 0]]

\* x[:, :H, :W].contiguous()
Crop(t, H, W) ==
    LET ns == <<t.shape[1], H, W, t.shape[4]>> IN
    [shape |-> ns,
     data |-> [k \in 1..Numel(ns) |-> At(t, Unflat(k - 1, ns))]]

\* x.view(B, nH, ws, nW, ws, C).transpose(2,3).reshape(B*nH*nW, ws*ws, C)
Partition(t, ws) ==
    LET B == t.shape[1]
        nH == t.shape[2] \div ws
        nW == t.shape[3] \div ws
        C == t.shape[4]
    IN View(TransposeContig(View(t, <<B, nH, ws, nW, ws, C>>), 3, 4),
            <<B * nH * nW, ws * ws, C>>)

UnpartitionNoTranspose(t, B, pH, pW, ws) ==
    View(t, <<B, pH, pW, t.shape[3]>>)

\* x.view(B, nH, nW, ws, ws, C).transpose(2,3).reshape(B, pH, pW, C)
Unpartition(t, B, pH, pW, ws) ==
    LET nH == pH \div ws
        nW == pW \div ws
        C == t.shape[3]
    IN View(TransposeContig(View(t, <<B, nH, nW, ws, ws, C>>), 3, 4),
            <<B, pH, pW, C>>)

\* self.attn with the attention module replaced by the identity
attn(t) == t

H_ == input_resolution[1]
W_ == input_resolution[2]
pH == H_ + PadAmount(window_size, H_)
pW == W_ + PadAmount(window_size, W_)

\* the (B, L, C) input whose element at flat position k is the token id k
TokenGrid(B, L, C) ==
    [shape |-> <<B, L, C>>, data |-> [k \in 1..(B * L * C) |-> k]]

\* grid and window sizes drawn for the window transform
WinShapes ==
    {<<h, w, ws>> : h \in 1..MaxGrid, w \in 1..MaxGrid, ws \in 1..MaxWinSize}
      \cup {<<13, 13, 7>>}

WinInit ==
    /\ FwdIdle
    /\ IdxIdle
    /\ AttnIdle
    /\ BuildIdle
    /\ \E s \in WinShapes, B \in 1..MaxBatch, C \in 1..MaxChan :
         /\ input_resolution = <<s[1], s[2]>>
         /\ window_size = s[3]
         /\ x = TokenGrid(B, s[1] * s[2], C)
    /\ res = x
    /\ win_pc = "start"

\* H == window_size and W == window_size: x = self.attn(x)
FastPath ==
    /\ win_pc = "start"
    /\ H_ = window_size /\ W_ = window_size
    /\ x' = attn(x)
    /\ win_pc' = "attended"
    /\ UNCHANGED <<input_resolution, window_size, res>>
    /\ UNCHANGED <<idxVars, attnVars, buildVars, fwdVars>>

\* x.view(B, H, W, C) and the zero padding at the bottom and the right
PadStep ==
    /\ win_pc = "start"
    /\ ~(H_ = window_size /\ W_ = window_size)
    /\ LET v == View(x, <<x.shape[1], H_, W_, x.shape[3]>>)
           pad_b == PadAmount(window_size, H_)
           pad_r == PadAmount(window_size, W_)
       IN x' = IF pad_b # 0 \/ pad_r # 0 THEN Pad(v, pad_r, pad_b) ELSE v
    /\ win_pc' = "padded"
    /\ UNCHANGED <<input_resolution, window_size, res>>
    /\ UNCHANGED <<idxVars, attnVars, buildVars, fwdVars>>

PartitionStep ==
    /\ win_pc = "padded"
    /\ x' = Partition(x, window_size)
    /\ win_pc' = "windows"
    /\ UNCHANGED <<input_resolution, window_size, res>>
    /\ UNCHANGED <<idxVars, attnVars, buildVars, fwdVars>>

AttnStep ==
    /\ win_pc = "windows"
    /\ x' = attn(x)
    /\ win_pc' = "attn"
    /\ UNCHANGED <<input_resolution, window_size, res>>
    /\ UNCHANGED <<idxVars, attnVars, buildVars, fwdVars>>

UnpartitionStep ==
    /\ win_pc = "attn"
    /\ x' = Unpartition(x, res.shape[1], pH, pW, window_size)
    /\ win_pc' = "merged"
    /\ UNCHANGED <<input_resolution, window_size, res>>
    /\ UNCHANGED <<idxVars, attnVars, buildVars, fwdVars>>

\* the crop back to H x W and x.view(B, L, C)
CropStep ==
    /\ win_pc = "merged"
    /\ LET c == IF pH # H_ \/ pW # W_ THEN Crop(x, H_, W_) ELSE x
       IN x' = View(c, res.shape)
    /\ win_pc' = "attended"
    /\ UNCHANGED <<input_resolution, window_size, res>>
    /\ UNCHANGED <<idxVars, attnVars, buildVars, fwdVars>>

WinNext ==
    \/ FastPath
    \/ PadStep
    \/ PartitionStep
    \/ AttnStep
    \/ UnpartitionStep
    \/ CropStep

SpecWin == WinInit /\ [][WinNext]_vars

\* C5: with the identity in place of attention, pad -> partition ->
\* unpartition -> crop returns every token of the H x W grid to its original
\* sequence position with its original value, padded or not.
C5_RoundTrip ==
    win_pc = "attended" => x = res

\* the windows hold exactly window_size^2 tokens each, in whole windows
WindowsWellShaped ==
    win_pc = "windows" =>
        /\ x.shape[2] = window_size * window_size
        /\ x.shape[1] = res.shape[1] * (pH \div window_size) * (pW \div window_size)
        /\ Len(x.data) = Numel(x.shape)

C5_Witness ==
    /\ win_pc = "attended"
    /\ input_resolution = <<13, 13>>
    /\ window_size = 7
    /\ pH = 14 /\ pW = 14
    /\ x = res

----------------------------------------------------------------------------
(* TinyViT.__init__ and set_layer_lr_decay, src/model.py 336-423 *)

\* image sizes drawn for construction
ImgSizes == {8 * k : k \in 1..MaxImgUnits} \cup {224, 1024}

\* depths lists of 1..MaxLayers stages with 0..MaxDepth blocks each
DepthLists ==
    UNION {[1..K -> 0..MaxDepth] : K \in 1..MaxLayers}

RECURSIVE SumTo(_, _)
\* sum(s[:n])
SumTo(s, n) == IF n <= 0 THEN 0 ELSE s[n] + SumTo(s, n - 1)

Sum(s) == SumTo(s, Len(s))

\* PatchEmbed.patches_resolution
PatchesResolution(size) == <<size \div 4, size \div 4>>

\* input_resolution of stage i_layer (0-based)
StageResolution(pr, i_layer, n_layers) ==
    LET e == IF i_layer = 3 THEN i_layer - 1 ELSE i_layer
    IN <<pr[1] \div Pow(2, e), pr[2] \div Pow(2, e)>>

\* a (group of) trainable parameter(s), named by the component owning it
Param(kind, layer, idx) == [kind |-> kind, layer |-> layer, idx |-> idx]

StemParams == {Param("patch_embed", 0, 0)}
BlockParams(l, b) == {Param("block", l, b)}
DownsampleParams(l) == {Param("downsample", l, 0)}
NormHeadParams == {Param("norm_head", 0, 0)}
\* nn.Linear when num_classes > 0, else nn.Identity without parameters
HeadParams(nc) == IF nc > 0 THEN {Param("head", 0, 0)} ELSE {}
\* neck.0 and neck.2 are convolutions, neck.1 and neck.3 LayerNorm2d
NeckParams == {Param("neck", 0, n) : n \in 0..3}

LayerParams(l, layer) ==
    UNION {BlockParams(l, b) : b \in 0..(layer.depth - 1)}
      \cup (IF layer.downsample THEN DownsampleParams(l) ELSE {})

BuildInit ==
    /\ FwdIdle
    /\ IdxIdle
    /\ AttnIdle
    /\ WinIdle
    /\ img_size \in ImgSizes
    /\ depths \in DepthLists
    /\ layer_lr_decay \in 1..MaxDecay
    /\ num_classes \in {0, 1000}
    /\ patches_resolution = <<0, 0>>
    /\ layers = <<>>
    /\ params = {}
    /\ lr_scale = <<>>
    /\ i = 0
    /\ li = 0
    /\ bi = 0
    /\ build_pc = "patch_embed"
    /\ error = ""

\* self.patch_embed = PatchEmbed(..)
BuildPatchEmbed ==
    /\ build_pc = "patch_embed"
    /\ patches_resolution' = PatchesResolution(img_size)
    /\ params' = params \cup StemParams
    /\ build_pc' = "stages"
    /\ UNCHANGED <<cfgVars, layers, lr_scale, i, li, bi, error>>
    /\ UNCHANGED <<idxVars, attnVars, winVars, fwdVars>>

\* one iteration of `for i_layer in range(self.num_layers)`
BuildStage ==
    /\ build_pc = "stages"
    /\ Len(layers) < Len(depths)
    /\ LET i_layer == Len(layers)
           layer == [input_resolution |->
                        StageResolution(patches_resolution, i_layer, Len(depths)),
                     depth |-> depths[i_layer + 1],
                     downsample |-> i_layer < Len(depths) - 1]
       IN /\ layers' = Append(layers, layer)
          /\ params' = params \cup LayerParams(i_layer, layer)
    /\ UNCHANGED <<cfgVars, patches_resolution, lr_scale, i, li, bi, build_pc,
                   error>>
    /\ UNCHANGED <<idxVars, attnVars, winVars, fwdVars>>

\* norm_head, head and the neck
BuildHeadNeck ==
    /\ build_pc = "stages"
    /\ Len(layers) = Len(depths)
    /\ params' = params \cup NormHeadParams \cup HeadParams(num_classes)
                        \cup NeckParams
    /\ build_pc' = "decay"
    /\ UNCHANGED <<cfgVars, patches_resolution, layers, lr_scale, i, li, bi,
                   error>>
    /\ UNCHANGED <<idxVars, attnVars, winVars, fwdVars>>

LrScalesOffByOne(decay_rate, depth) ==
    [k \in 1..depth |-> Pow(decay_rate, depth - (k - 1))]

\* lr_scales = [decay_rate ** (depth - i - 1) for i in range(depth)]
LrScales(decay_rate, depth) ==
    [k \in 1..depth |-> Pow(decay_rate, depth - (k - 1) - 1)]

lr_scales == LrScales(layer_lr_decay, Sum(depths))

\* Python list indexing: negative k counts from the end
InRange(s, k) == k < Len(s) /\ k >= -Len(s)
PyIndex(s, k) == IF k < 0 THEN s[Len(s) + k + 1] ELSE s[k + 1]

\* m.apply(lambda x: _set_lr_scale(x, scale)) on the component owning ps
SetLrScale(tags, ps, scale) ==
    [p \in (DOMAIN tags) \cup ps |-> IF p \in ps THEN scale ELSE tags[p]]

\* self.patch_embed.apply(.. lr_scales[0]); IndexError when depth is 0
TagPatchEmbed ==
    /\ build_pc = "decay"
    /\ IF InRange(lr_scales, 0)
       THEN /\ lr_scale' = SetLrScale(lr_scale, StemParams, PyIndex(lr_scales, 0))
            /\ build_pc' = "tag"
            /\ error' = error
       ELSE /\ build_pc' = "raised"
            /\ error' = "IndexError"
            /\ lr_scale' = lr_scale
    /\ UNCHANGED <<cfgVars, patches_resolution, layers, params, i, li, bi>>
    /\ UNCHANGED <<idxVars, attnVars, winVars, fwdVars>>

\* block.apply(.. lr_scales[i]); i += 1
TagBlock ==
    /\ build_pc = "tag"
    /\ li < Len(layers)
    /\ bi < layers[li + 1].depth
    /\ lr_scale' = SetLrScale(lr_scale, BlockParams(li, bi), PyIndex(lr_scales, i))
    /\ i' = i + 1
    /\ bi' = bi + 1
    /\ UNCHANGED <<cfgVars, patches_resolution, layers, params, li, build_pc,
                   error>>
    /\ UNCHANGED <<idxVars, attnVars, winVars, fwdVars>>

\* end of a layer's blocks: layer.downsample.apply(.. lr_scales[i-1]) if any
TagDownsample ==
    /\ build_pc = "tag"
    /\ li < Len(layers)
    /\ bi = layers[li + 1].depth
    /\ lr_scale' = IF layers[li + 1].downsample
                   THEN SetLrScale(lr_scale, DownsampleParams(li),
                                   PyIndex(lr_scales, i - 1))
                   ELSE lr_scale
    /\ li' = li + 1
    /\ bi' = 0
    /\ UNCHANGED <<cfgVars, patches_resolution, layers, params, i, build_pc,
                   error>>
    /\ UNCHANGED <<idxVars, attnVars, winVars, fwdVars>>

\* assert i == depth; norm_head and head get lr_scales[-1]
TagHead ==
    /\ build_pc = "tag"
    /\ li = Len(layers)
    /\ IF i = Sum(depths)
       THEN /\ lr_scale' = SetLrScale(lr_scale,
                                      NormHeadParams \cup HeadParams(num_classes),
                                      PyIndex(lr_scales, -1))
            /\ build_pc' = "check"
            /\ error' = error
       ELSE /\ build_pc' = "raised"
            /\ error' = "AssertionError"
            /\ lr_scale' = lr_scale
    /\ UNCHANGED <<cfgVars, patches_resolution, layers, params, i, li, bi>>
    /\ UNCHANGED <<idxVars, attnVars, winVars, fwdVars>>

Untagged == {p \in params : p \notin DOMAIN lr_scale}

\* the final pass: `hasattr(p, 'lr_scale') or AssertionError(p.param_name)`
\* builds the exception object as a list element and never raises it
CheckTags ==
    /\ build_pc = "check"
    /\ build_pc' = "constructed"
    /\ UNCHANGED <<cfgVars, patches_resolution, layers, params, lr_scale, i,
                   li, bi, error>>
    /\ UNCHANGED <<idxVars, attnVars, winVars, fwdVars>>

BuildNext ==
    \/ BuildPatchEmbed
    \/ BuildStage
    \/ BuildHeadNeck
    \/ TagPatchEmbed
    \/ TagBlock
    \/ TagDownsample
    \/ TagHead
    \/ CheckTags

SpecBuild == BuildInit /\ [][BuildNext]_vars

\* C1: once construction has completed, every trainable parameter of the
\* model (stem, blocks, downsample transforms, norm_head/head, neck) carries
\* an lr_scale tag.
C1_AllTagged ==
    build_pc = "constructed" => \A p \in params : p \in DOMAIN lr_scale

\* C2: when the tagging traversal finishes with some parameter untagged,
\* construction fails with an error naming it, and never returns normally.
C2_UntaggedFails ==
    [][(CheckTags /\ Untagged # {}) =>
          (build_pc' = "raised" /\ error' # "")]_vars

RECURSIVE Halved(_, _)
\* n halved `times` times
Halved(n, times) == IF times <= 0 THEN n ELSE Halved(n \div 2, times - 1)

StagesBuilt == build_pc \in {"decay", "tag", "check", "constructed", "raised"}

\* C7: with K stages, stage i's declared resolution is the stem's base
\* resolution halved i times for every stage but the last, and the last
\* stage's declared resolution equals that of stage K-2.
C7_StageSchedule ==
    StagesBuilt =>
      LET K == Len(layers)
          base == img_size \div 4
      IN /\ \A s \in 0..(K - 2) :
               layers[s + 1].input_resolution
                  = <<Halved(base, s), Halved(base, s)>>
         /\ K >= 2 =>
               layers[K].input_resolution = layers[K - 1].input_resolution

\* the instance of the schedule for image size 224 and four stages
Schedule224 ==
    (StagesBuilt /\ img_size = 224 /\ Len(layers) = 4) =>
       [s \in 1..4 |-> layers[s].input_resolution]
          = <<(<<56, 56>>), (<<28, 28>>), (<<14, 14>>), (<<14, 14>>)>>

\* C8: with D the total block count and blocks numbered 0..D-1 in stage
\* order, block p is tagged decay_rate^(D-p-1), the stem gets the first
\* block's scale, each downsample transform the scale of the last block of
\* its own stage, and norm_head/head the last block's scale.
C8_DepthDecay ==
    build_pc \in {"check", "constructed"} =>
      LET D == Sum(depths)
          K == Len(depths)
          d == layer_lr_decay
          pos(l, b) == SumTo(depths, l) + b
      IN /\ \A l \in 0..(K - 1) : \A b \in 0..(depths[l + 1] - 1) :
               lr_scale[Param("block", l, b)] = Pow(d, D - pos(l, b) - 1)
         /\ \A p \in StemParams : lr_scale[p] = Pow(d, D - 1)
         /\ \A l \in 0..(K - 2) :
               depths[l + 1] >= 1 =>
                  \A p \in DownsampleParams(l) :
                     lr_scale[p] = lr_scale[Param("block", l, depths[l + 1] - 1)]
         /\ \A p \in NormHeadParams \cup HeadParams(num_classes) :
               lr_scale[p] = 1 /\ lr_scale[p] = Pow(d, D - (D - 1) - 1)

C8_Witness ==
    /\ build_pc = "constructed"
    /\ layer_lr_decay = 2
    /\ depths = <<2, 1, 2, 1>>
    /\ num_classes > 0
    /\ lr_scale[Param("block", 0, 0)] = 32
    /\ lr_scale[Param("downsample", 2, 0)] = 2
    /\ lr_scale[Param("head", 0, 0)] = 1

----------------------------------------------------------------------------
(* TinyViT.forward_features : shape flow, src/model.py 425-433 *)

\* channel widths drawn for embed_dims
EmbedChoices == {64, 320}

\* image sizes and batch sizes drawn for forward
FwdImgSizes == {24, 32, 64, 224, 1024}
BatchSizes == {1, 2}

\* output widths for which PatchMerging keeps the spatial resolution
NoReductionDims == {320, 448, 576}

MergeStrideAlwaysTwo(out_dim) == 2

\* stride_c of PatchMerging.conv2
MergeStride(out_dim) == IF out_dim \in NoReductionDims THEN 1 ELSE 2

\* output size of a convolution along one spatial axis
ConvOut(n, ks, stride, pad) == (n + 2 * pad - ks) \div stride + 1

Min(a, b) == IF a < b THEN a ELSE b

\* the stage TinyViT.__init__ builds for i_layer (0-based), with the
\* PatchMerging it attaches to every stage but the last
Stage(pr, dims, dps, i_layer) ==
    LET out_dim == dims[Min(i_layer + 1, Len(dims) - 1) + 1] IN
    [dim |-> dims[i_layer + 1],
     input_resolution |-> StageResolution(pr, i_layer, Len(dps)),
     depth |-> dps[i_layer + 1],
     downsample |-> i_layer < Len(dps) - 1,
     out_dim |-> out_dim,
     stride_c |-> MergeStride(out_dim)]

\* the constructed model
TinyViT(size, dims, dps) ==
    [img_size |-> size,
     embed_dims |-> dims,
     depths |-> dps,
     layers |-> [l \in 1..Len(dps) |->
                    Stage(PatchesResolution(size), dims, dps, l - 1)]]

FwdInit ==
    /\ IdxIdle
    /\ AttnIdle
    /\ WinIdle
    /\ BuildIdle
    /\ \E K \in 1..MaxFwdLayers :
         \E dims \in [1..K -> EmbedChoices], dps \in [1..K -> 0..MaxFwdDepth],
            size \in FwdImgSizes, B \in BatchSizes :
           /\ net = TinyViT(size, dims, dps)
           /\ x_shape = <<B, 3, size, size>>
    /\ fl = 0
    /\ fb = 0
    /\ fwd_pc = "stem"
    /\ fwd_error = ""

\* PatchEmbed.forward: two 3x3 convolutions of stride 2 and padding 1
PatchEmbedForward ==
    /\ fwd_pc = "stem"
    /\ x_shape' = <<x_shape[1], net.embed_dims[1],
                  ConvOut(ConvOut(x_shape[3], 3, 2, 1), 3, 2, 1),
                  ConvOut(ConvOut(x_shape[4], 3, 2, 1), 3, 2, 1)>>
    /\ fwd_pc' = "layers"
    /\ UNCHANGED <<net, fl, fb, fwd_error>>
    /\ UNCHANGED <<idxVars, attnVars, winVars, buildVars>>

CurLayer == net.layers[fl + 1]

\* the error a block raises on the current tensor, "" when it runs:
\* MBConv keeps a (B, C, H, W) tensor; TinyViTBlock unpacks B, L, C and
\* asserts L == H*W
BlockError(layer, is_conv, shp) ==
    IF is_conv THEN (IF Len(shp) = 4 /\ shp[2] = layer.dim THEN "" ELSE "RuntimeError")
    ELSE IF Len(shp) # 3 THEN "ValueError"
    ELSE IF shp[2] # layer.input_resolution[1] * layer.input_resolution[2]
         THEN "AssertionError"
    ELSE IF shp[3] # layer.dim THEN "RuntimeError"
    ELSE ""

\* blk(x) for the next block of the current layer
BlockForward ==
    /\ fwd_pc = "layers"
    /\ fl < Len(net.layers)
    /\ fb < CurLayer.depth
    /\ LET err == BlockError(CurLayer, fl = 0, x_shape) IN
       IF err = ""
       THEN /\ fb' = fb + 1
            /\ UNCHANGED <<fwd_pc, fwd_error>>
       ELSE /\ fwd_pc' = "failed"
            /\ fwd_error' = err
            /\ fb' = fb
    /\ UNCHANGED <<net, x_shape, fl>>
    /\ UNCHANGED <<idxVars, attnVars, winVars, buildVars>>

\* the (C, H, W) PatchMerging.forward works on: a token grid is viewed as
\* (B, H, W, -1) with the declared resolution; <<>> when the view fails
MergeInput(layer, shp) ==
    IF Len(shp) = 3
    THEN LET hw == layer.input_resolution[1] * layer.input_resolution[2] IN
         IF hw = 0 \/ (shp[2] * shp[3]) % hw # 0 THEN <<>>
         ELSE <<(shp[2] * shp[3]) \div hw, layer.input_resolution[1],
                layer.input_resolution[2]>>
    ELSE <<shp[2], shp[3], shp[4]>>

\* PatchMerging.forward: output token grid, <<>> on a shape error
MergeForward(layer, shp) ==
    LET chw == MergeInput(layer, shp) IN
    IF chw = <<>> THEN <<>>
    ELSE IF chw[1] # layer.dim THEN <<>>
    ELSE <<shp[1],
           ConvOut(chw[2], 3, layer.stride_c, 1)
             * ConvOut(chw[3], 3, layer.stride_c, 1),
           layer.out_dim>>

\* end of the current layer: its downsample, if any
DownsampleForward ==
    /\ fwd_pc = "layers"
    /\ fl < Len(net.layers)
    /\ fb = CurLayer.depth
    /\ IF ~CurLayer.downsample
       THEN /\ fl' = fl + 1 /\ fb' = 0
            /\ UNCHANGED <<x_shape, fwd_pc, fwd_error>>
       ELSE IF MergeForward(CurLayer, x_shape) = <<>>
       THEN /\ fwd_pc' = "failed"
            /\ fwd_error' = "RuntimeError"
            /\ UNCHANGED <<x_shape, fl, fb>>
       ELSE /\ x_shape' = MergeForward(CurLayer, x_shape)
            /\ fl' = fl + 1 /\ fb' = 0
            /\ UNCHANGED <<fwd_pc, fwd_error>>
    /\ UNCHANGED net
    /\ UNCHANGED <<idxVars, attnVars, winVars, buildVars>>

\* B,_,C = x.size(); x.view(B,64,64,C).permute(0,3,1,2); self.neck(x)
NeckForward ==
    /\ fwd_pc = "layers"
    /\ fl = Len(net.layers)
    /\ IF Len(x_shape) # 3
       THEN /\ fwd_pc' = "failed" /\ fwd_error' = "ValueError"
            /\ x_shape' = x_shape
       ELSE IF x_shape[2] # 64 * 64
       THEN /\ fwd_pc' = "failed" /\ fwd_error' = "RuntimeError"
            /\ x_shape' = x_shape
       ELSE /\ x_shape' = <<x_shape[1], 256, 64, 64>>
            /\ fwd_pc' = "done"
            /\ fwd_error' = fwd_error
    /\ UNCHANGED <<net, fl, fb>>
    /\ UNCHANGED <<idxVars, attnVars, winVars, buildVars>>

FwdNext ==
    \/ PatchEmbedForward
    \/ BlockForward
    \/ DownsampleForward
    \/ NeckForward

SpecFwd == FwdInit /\ [][FwdNext]_vars

FwdEnded == fwd_pc \in {"done", "failed"}

\* C3: a model built with image size 224 takes a (2, 3, 224, 224) batch
\* through the stem, all stages and the neck without a failure and returns a
\* (2, 256, 64, 64) tensor.
C3_Forward224 ==
    (FwdEnded /\ net.img_size = 224 /\ x_shape[1] = 2
       /\ Len(net.layers) = 4 /\ \A l \in 1..4 : net.depths[l] >= 1) =>
        (fwd_pc = "done" /\ x_shape = <<2, 256, 64, 64>>)

\* no model built with image size 224 finishes forward
Forward224NeverDone ==
    net.img_size = 224 => fwd_pc # "done"

\* at image size 1024 four stages whose last width alone is a no-reduction
\* width yield (B, 256, 64, 64)
Forward1024 ==
    (FwdEnded /\ net.img_size = 1024 /\ Len(net.layers) = 4
       /\ (\A l \in 1..3 : net.embed_dims[l] \notin NoReductionDims)
       /\ net.embed_dims[4] \in NoReductionDims) =>
        (fwd_pc = "done" /\ x_shape[2] = 256 /\ x_shape[3] = 64 /\ x_shape[4] = 64)

\* C10: for four stages of at least one block each and a square image size
\* that is a multiple of 32, no Transformer Block's `assert L == H*W` fails
\* (every block is reached with its declared token count) exactly when
\* embed_dims[3] is a no-reduction width and embed_dims[1], embed_dims[2]
\* are not.
C10_AssertIffWidths ==
    (FwdEnded /\ Len(net.layers) = 4 /\ net.img_size % 32 = 0
       /\ \A l \in 1..4 : net.depths[l] >= 1) =>
        ((fwd_error # "AssertionError" /\ fl = 4)
           <=> (/\ net.embed_dims[4] \in NoReductionDims
                /\ net.embed_dims[2] \notin NoReductionDims
                /\ net.embed_dims[3] \notin NoReductionDims))

C10_Witness ==
    /\ fwd_pc = "done"
    /\ net.img_size = 1024
    /\ net.embed_dims = <<64, 64, 64, 320>>
    /\ net.depths = <<1, 1, 1, 1>>
    /\ x_shape = <<2, 256, 64, 64>>

C10_WitnessFail ==
    /\ fwd_pc = "failed"
    /\ fwd_error = "AssertionError"
    /\ net.img_size = 224
    /\ net.embed_dims = <<64, 64, 64, 64>>
    /\ net.depths = <<1, 1, 1, 1>>
    /\ fl = 3
    /\ x_shape = <<2, 49, 64>>

====
